---- MODULE Spec2Model ----
(***************************************************************************)
(* State-machine model of the curses file manager in                       *)
(* src/atax_file_maneger.py (class FileManager).                           *)
(*                                                                         *)
(* Names are sequences of character codes, paths are sequences of names    *)
(* (the root directory is the empty sequence).  The filesystem is a        *)
(* function from the existing paths to their stat record.                  *)
(***************************************************************************)
EXTENDS Integers, Sequences, FiniteSets, TLC

VARIABLES
    fs,              \* filesystem: path -> [isDir, size, mtime, readable, writable]
    height,          \* terminal height reported by stdscr.getmaxyx()
    nMut,            \* number of filesystem mutations so far (also the clock)
    current_path,    \* self.current_path
    selected_index,  \* self.selected_index
    top_index,       \* self.top_index
    files,           \* self.files (sequence of paths)
    sort_by,         \* self.sort_by
    sort_reverse,    \* self.sort_reverse
    pane_height,     \* self.pane_height
    show_hidden,     \* self.show_hidden
    clipboard,       \* self.clipboard: <<>> is None, <<p>> is the path p
    clipboard_type,  \* self.clipboard_type: "None", "copy" or "cut"
    search_mode,     \* self.search_mode
    search_query,    \* self.search_query
    quit,            \* self.quit
    pc,              \* "init" before run(), "loop", "exited", or "raised" when an
                     \* exception has left run()
    key,             \* the key getch() returned last (0 before the first)
    message,         \* <<text, detail>> of the show_message() call of the last
                     \* iteration, <<"", "">> if it made none
    answer           \* what get_input() returned in the last iteration, <<>> if
                     \* it was not called

vars == <<fs, height, nMut, current_path, selected_index, top_index, files,
          sort_by, sort_reverse, pane_height, show_hidden, clipboard,
          clipboard_type, search_mode, search_query, quit, pc, key, message,
          answer>>

-----------------------------------------------------------------------------
(* Bounds *)

MaxPane == 4         \* SpecNav explores the pane heights 1..MaxPane
PaneRows == 2        \* the pane height of the other specifications
MaxMut == 2          \* at most MaxMut filesystem mutations in a run
MaxQuery == 3        \* the search query holds at most MaxQuery characters

-----------------------------------------------------------------------------
(* Characters and names *)

NameD == <<100>>         \* "d"
NameE == <<101>>         \* "e"
NameG == <<46, 103>>     \* ".g"
NameH == <<104>>         \* "h"
NameP == <<112>>         \* "p"
NameR == <<114>>         \* "r"
NameA == <<97>>          \* "a"
NameB == <<66>>          \* "B"
NameCT == <<99, 46, 116>>  \* "c.t"

Min(a, b) == IF a < b THEN a ELSE b
Max(a, b) == IF a > b THEN a ELSE b

\* str.lower() on one character code
LowerChar(c) == IF c >= 65 /\ c <= 90 THEN c + 32 ELSE c

\* str.lower()
Lower(s) == [i \in 1..Len(s) |-> LowerChar(s[i])]

\* Python's < on strings (lexicographic on code points)
RECURSIVE StrLess(_, _)
StrLess(s, t) ==
    IF t = <<>> THEN FALSE
    ELSE IF s = <<>> THEN TRUE
    ELSE IF s[1] < t[1] THEN TRUE
    ELSE IF s[1] > t[1] THEN FALSE
    ELSE StrLess(Tail(s), Tail(t))

\* Python's `q in s` on strings
Contains(s, q) ==
    \E i \in 0..(Len(s) - Len(q)) : SubSeq(s, i + 1, i + Len(q)) = q

\* str.startswith('.')
StartsWithDot(s) == Len(s) > 0 /\ s[1] = 46

\* str.rfind('.'), 0-based, -1 when absent
RFindDot(s) ==
    IF \E i \in 1..Len(s) : s[i] = 46
    THEN (CHOOSE i \in 1..Len(s) :
              s[i] = 46 /\ \A j \in (i + 1)..Len(s) : s[j] # 46) - 1
    ELSE -1

\* pathlib's PurePath.suffix
Suffix(s) ==
    LET i == RFindDot(s)
    IN  IF 0 < i /\ i < Len(s) - 1 THEN SubSeq(s, i + 1, Len(s)) ELSE <<>>

-----------------------------------------------------------------------------
(* Paths and the filesystem *)

Root == <<>>
Home == <<NameH>>

PathName(p) == p[Len(p)]
Parent(p) == SubSeq(p, 1, Len(p) - 1)
Child(p, n) == Append(p, n)

IsPrefix(p, q) == Len(p) <= Len(q) /\ SubSeq(q, 1, Len(p)) = p

Exists(f, p) == p \in DOMAIN f
IsDir(f, p) == Exists(f, p) /\ f[p].isDir
IsFile(f, p) == Exists(f, p) /\ ~f[p].isDir

Children(f, p) == {q \in DOMAIN f : Len(q) = Len(p) + 1 /\ IsPrefix(p, q)}
Subtree(f, p) == {q \in DOMAIN f : IsPrefix(p, q)}

\* stat() of a directory (every directory reports the same st_size) and of a file
DirNode(t, r, w) == [isDir |-> TRUE, size |-> 4, mtime |-> t,
                     readable |-> r, writable |-> w]
FileNode(s, t) == [isDir |-> FALSE, size |-> s, mtime |-> t,
                   readable |-> TRUE, writable |-> TRUE]

\* The directory tree the session starts in:
\*   /            listable, not writable by the user
\*   /p           neither listable nor writable
\*   /r           a file
\*   /h           the user's home: d/ e/ r .g
InitFs ==
    (Root :> DirNode(1, TRUE, FALSE))
    @@ (<<NameP>> :> DirNode(1, FALSE, FALSE))
    @@ (<<NameR>> :> FileNode(5, 1))
    @@ (Home :> DirNode(4, TRUE, TRUE))
    @@ (<<NameH, NameD>> :> DirNode(3, TRUE, TRUE))
    @@ (<<NameH, NameE>> :> DirNode(2, TRUE, TRUE))
    @@ (<<NameH, NameR>> :> FileNode(2, 4))
    @@ (<<NameH, NameG>> :> FileNode(3, 2))
\* The same tree with three more files in the home directory: a B c.t
WideFs ==
    (<<NameH, NameA>> :> FileNode(1, 3))
    @@ (<<NameH, NameB>> :> FileNode(2, 1))
    @@ (<<NameH, NameCT>> :> FileNode(0, 2))
    @@ InitFs

\* The first tree with two more files in the home directory: Ae a.e
NameAe == <<65, 101>>
NameADotE == <<97, 46, 101>>
CaseFs ==
    (<<NameH, NameAe>> :> FileNode(1, 3))
    @@ (<<NameH, NameADotE>> :> FileNode(2, 1))
    @@ InitFs

\* A small tree: / (not writable) holding the home directory with d/ and r
SmallFs ==
    (Root :> DirNode(1, TRUE, FALSE))
    @@ (Home :> DirNode(4, TRUE, TRUE))
    @@ (<<NameH, NameD>> :> DirNode(3, TRUE, TRUE))
    @@ (<<NameH, NameR>> :> FileNode(2, 4))

\* The time stamp the filesystem gives to mutation number n + 1; later than
\* every mtime of InitFs.
Now(n) == n + 5

-----------------------------------------------------------------------------
(* Listing pipeline: refresh_files *)

\* Path.iterdir(): the children of p, here in ascending order of their raw names
RECURSIVE SeqOfPaths(_)
SeqOfPaths(S) ==
    IF S = {} THEN <<>>
    ELSE LET m == CHOOSE x \in S :
                      \A y \in S \ {x} : StrLess(PathName(x), PathName(y))
         IN  <<m>> \o SeqOfPaths(S \ {m})

IterDir(f, p) == SeqOfPaths(Children(f, p))

\* iterdir() raises PermissionError on a directory the user may not list
ListDenied(f, p) == Exists(f, p) /\ ~f[p].readable

\* iterdir() raises FileNotFoundError / NotADirectoryError, which
\* refresh_files does not catch
ListRaises(f, p) == ~IsDir(f, p)

\* key(p) < key(q) for the sort key selected by sort_by
KeyLess(f, by, p, q) ==
    CASE by = "name" -> StrLess(Lower(PathName(p)), Lower(PathName(q)))
      [] by = "size" -> (IF Exists(f, p) THEN f[p].size ELSE 0)
                          < (IF Exists(f, q) THEN f[q].size ELSE 0)
      [] by = "modified" -> (IF Exists(f, p) THEN f[p].mtime ELSE 0)
                              < (IF Exists(f, q) THEN f[q].mtime ELSE 0)
      [] by = "type" -> StrLess(Lower(Suffix(PathName(p))),
                                Lower(Suffix(PathName(q))))
      [] OTHER -> FALSE

\* list.sort(key=..., reverse=rev): stable in both directions
RECURSIVE InsertSorted(_, _, _, _, _)
InsertSorted(f, by, rev, sorted, x) ==
    IF sorted = <<>> THEN <<x>>
    ELSE LET y == Head(sorted)
             before == IF rev THEN KeyLess(f, by, y, x) ELSE KeyLess(f, by, x, y)
         IN  IF before THEN <<x>> \o sorted
             ELSE <<y>> \o InsertSorted(f, by, rev, Tail(sorted), x)

RECURSIVE SortPaths(_, _, _, _)
SortPaths(f, by, rev, s) ==
    IF s = <<>> THEN <<>>
    ELSE InsertSorted(f, by, rev,
                      SortPaths(f, by, rev, SubSeq(s, 1, Len(s) - 1)), s[Len(s)])

\* a listing that reverses the concatenation instead of each group
Listing_ReverseWhole(f, p, hidden, by, rev) ==
    LET all == IterDir(f, p)
        NotHidden(x) == ~StartsWithDot(PathName(x))
        shown == IF ~hidden THEN SelectSeq(all, NotHidden) ELSE all
        OnlyDir(x) == IsDir(f, x)
        NotDir(x) == ~IsDir(f, x)
        whole == SortPaths(f, by, FALSE, SelectSeq(shown, OnlyDir))
                 \o SortPaths(f, by, FALSE, SelectSeq(shown, NotDir))
    IN  IF rev THEN [i \in 1..Len(whole) |-> whole[Len(whole) + 1 - i]] ELSE whole

\* a listing that never drops the dot names
Listing_ShowsHidden(f, p, hidden, by, rev) ==
    LET all == IterDir(f, p)
        OnlyDir(x) == IsDir(f, x)
        NotDir(x) == ~IsDir(f, x)
    IN  SortPaths(f, by, rev, SelectSeq(all, OnlyDir))
        \o SortPaths(f, by, rev, SelectSeq(all, NotDir))

\* the listing before the search filter: hidden filter, partition, sort, concatenate
Listing(f, p, hidden, by, rev) ==
    LET all == IterDir(f, p)
        NotHidden(x) == ~StartsWithDot(PathName(x))
        shown == IF ~hidden THEN SelectSeq(all, NotHidden) ELSE all
        OnlyDir(x) == IsDir(f, x)
        NotDir(x) == ~IsDir(f, x)
        dirs == SelectSeq(shown, OnlyDir)
        regs == SelectSeq(shown, NotDir)
    IN  SortPaths(f, by, rev, dirs) \o SortPaths(f, by, rev, regs)

\* refresh_files() with a filter that compares the characters as typed
RefreshFiles_CaseSensitive(f, p, hidden, by, rev, smode, query) ==
    IF ListDenied(f, p) THEN <<>>
    ELSE LET listed == Listing(f, p, hidden, by, rev)
             Matches(x) == Contains(PathName(x), query)
         IN  IF smode /\ query # <<>> THEN SelectSeq(listed, Matches) ELSE listed

\* refresh_files(): the value self.files is left with
RefreshFiles(f, p, hidden, by, rev, smode, query) ==
    IF ListDenied(f, p) THEN <<>>
    ELSE LET listed == Listing(f, p, hidden, by, rev)
             Matches(x) == Contains(Lower(PathName(x)), Lower(query))
         IN  IF smode /\ query # <<>> THEN SelectSeq(listed, Matches) ELSE listed

-----------------------------------------------------------------------------
(* Filesystem primitives.  Each returns [err, fs]: err = "" on success,     *)
(* otherwise the name of the exception raised, and fs as the call left it.  *)

Res(e, g) == [err |-> e, fs |-> g]

CanWrite(f, d) == IsDir(f, d) /\ f[d].writable

Touch(f, d, t) == IF Exists(f, d) THEN [f EXCEPT ![d].mtime = t] ELSE f

Without(f, S) == [q \in (DOMAIN f) \ S |-> f[q]]

Rebase(q, src, dst) == dst \o SubSeq(q, Len(src) + 1, Len(q))

\* the subtree of src, re-rooted at dst
Grafted(f, src, dst) ==
    LET S == Subtree(f, src)
    IN  [q \in {Rebase(x, src, dst) : x \in S} |->
            f[CHOOSE x \in S : Rebase(x, src, dst) = q]]

\* Path.mkdir(exist_ok=False)
Mkdir(f, p, t) ==
    IF Exists(f, p) THEN Res("FileExistsError", f)
    ELSE IF ~Exists(f, Parent(p)) THEN Res("FileNotFoundError", f)
    ELSE IF ~CanWrite(f, Parent(p)) THEN Res("PermissionError", f)
    ELSE Res("", Touch((p :> DirNode(t, TRUE, TRUE)) @@ f, Parent(p), t))

\* Path.unlink()
Unlink(f, p, t) ==
    IF ~Exists(f, p) THEN Res("FileNotFoundError", f)
    ELSE IF f[p].isDir THEN Res("IsADirectoryError", f)
    ELSE IF ~CanWrite(f, Parent(p)) THEN Res("PermissionError", f)
    ELSE Res("", Touch(Without(f, {p}), Parent(p), t))

\* shutil.rmtree(p): the contents go first, the directory itself last
Rmtree(f, p, t) ==
    LET below == Subtree(f, p) \ {p}
        open == \A q \in Subtree(f, p) :
                    f[q].isDir => (f[q].readable /\ f[q].writable)
    IN  IF ~Exists(f, p) THEN Res("FileNotFoundError", f)
        ELSE IF ~f[p].isDir THEN Res("NotADirectoryError", f)
        ELSE IF ~open THEN Res("PermissionError", f)
        ELSE IF ~CanWrite(f, Parent(p))
             THEN Res("PermissionError",
                      IF below = {} THEN f ELSE Touch(Without(f, below), p, t))
        ELSE Res("", Touch(Without(f, Subtree(f, p)), Parent(p), t))

\* os.rename(src, dst)
Rename(f, src, dst, t) ==
    IF ~Exists(f, src) THEN Res("FileNotFoundError", f)
    ELSE IF src = dst THEN Res("", f)
    ELSE IF ~Exists(f, Parent(dst)) THEN Res("FileNotFoundError", f)
    ELSE IF f[src].isDir /\ IsPrefix(src, dst) THEN Res("OSError", f)
    ELSE IF ~CanWrite(f, Parent(src)) \/ ~CanWrite(f, Parent(dst))
         THEN Res("PermissionError", f)
    ELSE IF Exists(f, dst) /\ ~f[src].isDir /\ f[dst].isDir
         THEN Res("IsADirectoryError", f)
    ELSE IF Exists(f, dst) /\ f[src].isDir /\ ~f[dst].isDir
         THEN Res("NotADirectoryError", f)
    ELSE IF Exists(f, dst) /\ f[dst].isDir /\ Children(f, dst) # {}
         THEN Res("OSError", f)
    ELSE LET moved == Grafted(f, src, dst)
             rest == Without(f, Subtree(f, src) \cup {dst})
         IN  Res("", Touch(Touch(moved @@ rest, Parent(src), t), Parent(dst), t))

\* shutil.copy2(src, dst): into dst when dst is a directory, else onto dst
Copy2(f, src, dst, t) ==
    LET real == IF IsDir(f, dst) THEN Child(dst, PathName(src)) ELSE dst
    IN  IF Exists(f, src) /\ real = src THEN Res("SameFileError", f)
        ELSE IF ~Exists(f, src) THEN Res("FileNotFoundError", f)
        ELSE IF f[src].isDir THEN Res("IsADirectoryError", f)
        ELSE IF IsDir(f, real) THEN Res("IsADirectoryError", f)
        ELSE IF Exists(f, real) THEN Res("", (real :> f[src]) @@ f)
        ELSE IF ~CanWrite(f, Parent(real)) THEN Res("PermissionError", f)
        ELSE Res("", Touch((real :> f[src]) @@ f, Parent(real), t))

\* copytree whose destination lies below a child of the source never ends
\* by itself (it copies what it has just created)
CopyRunsAway(f, src, dst) ==
    IsDir(f, src) /\ IsPrefix(src, Parent(dst)) /\ Parent(dst) # src

\* shutil.copytree(src, dst), dirs_exist_ok=False
CopyTree(f, src, dst, t) ==
    IF ~Exists(f, src) THEN Res("FileNotFoundError", f)
    ELSE IF ~f[src].isDir THEN Res("NotADirectoryError", f)
    ELSE IF \E q \in Subtree(f, src) : f[q].isDir /\ ~f[q].readable
         THEN Res("PermissionError", f)
    ELSE IF Exists(f, dst) THEN Res("FileExistsError", f)
    ELSE IF ~Exists(f, Parent(dst)) THEN Res("FileNotFoundError", f)
    ELSE IF ~CanWrite(f, Parent(dst)) THEN Res("PermissionError", f)
    ELSE LET g == Touch(Grafted(f, src, dst) @@ f, Parent(dst), t)
         IN  Res("", IF Parent(dst) = src THEN Touch(g, dst, t) ELSE g)

\* shutil.move(src, dst)
Move(f, src, dst, t) ==
    LET real == IF IsDir(f, dst) THEN Child(dst, PathName(src)) ELSE dst
        byRename == Rename(f, src, real, t)
        viaTree == CopyTree(f, src, real, t)
        viaFile == Copy2(f, src, real, t)
    IN  IF IsDir(f, dst) /\ src = dst THEN Res("", f)
        ELSE IF IsDir(f, dst) /\ Exists(f, real) THEN Res("Error", f)
        ELSE IF byRename.err = "" THEN byRename
        ELSE IF IsDir(f, src)
             THEN IF IsPrefix(src, dst) THEN Res("Error", f)
                  ELSE IF viaTree.err # "" THEN viaTree
                  ELSE Rmtree(viaTree.fs, src, t)
        ELSE IF viaFile.err # "" THEN viaFile
             ELSE Unlink(viaFile.fs, src, t)

-----------------------------------------------------------------------------
(* Key codes *)

KEY_ESC == 27
KEY_LF == 10
KEY_CR == 13
KEY_DEL == 127
KEY_DOWN == 258
KEY_UP == 259
KEY_HOME == 262
KEY_BACKSPACE == 263
KEY_F1 == 265
KEY_F2 == 266
KEY_F3 == 267
KEY_F4 == 268
KEY_F5 == 269
KEY_F6 == 270
KEY_F7 == 271
KEY_F8 == 272
KEY_F9 == 273
KEY_F10 == 274
KEY_NPAGE == 338
KEY_PPAGE == 339
KEY_END == 360
KEY_RESIZE == 410

\* ord() of the characters the dispatcher names
Slash == 47
LetterH == 104
LetterQ == 113
LetterR == 114
LetterV == 118

\* the letters "a" and "e", which no Normal-mode binding names
LetterA == 97
LetterE == 101

\* the keys the user presses
UserKeys ==
    {KEY_ESC, KEY_LF, KEY_BACKSPACE, KEY_DOWN, KEY_UP, KEY_HOME, KEY_END,
     KEY_NPAGE, KEY_PPAGE, KEY_F1, KEY_F2, KEY_F3, KEY_F4, KEY_F5, KEY_F6, KEY_F7,
     KEY_F8, KEY_F9, KEY_F10, KEY_RESIZE, Slash, LetterA, LetterE, LetterH, LetterQ,
     LetterR, LetterV}

\* 32 <= key <= 126
Printable(k) == 32 <= k /\ k <= 126

\* the keys the Normal-mode chain of run() compares against
BoundKeys ==
    {KEY_UP, KEY_DOWN, KEY_PPAGE, KEY_NPAGE, KEY_HOME, KEY_END, KEY_LF, KEY_CR,
     KEY_BACKSPACE, KEY_DEL, Slash, LetterV, KEY_F1, KEY_F2, KEY_F3, KEY_F4,
     KEY_F5, KEY_F6, KEY_F7, KEY_F8, KEY_F9, KEY_F10, LetterH, LetterR, LetterQ}

\* what the user answers to a prompt: "", "y", "Y", "n"
ConfirmInputs == {<<>>, <<121>>, <<89>>, <<110>>}

\* names the user types at the rename and new-directory prompts ("" included)
NameInputs == {<<>>, NameR}

NoMessage == <<"", "">>

sort_options == <<"name", "size", "modified", "type">>

IndexOf(seq, x) == CHOOSE i \in 1..Len(seq) : seq[i] = x

-----------------------------------------------------------------------------
(* The state machine *)

\* FileManager.__init__, on the given disk and in a terminal of the given height
Created(f, h) ==
    /\ fs = f
    /\ height = h
    /\ nMut = 0
    /\ current_path = Home
    /\ selected_index = 0
    /\ top_index = 0
    /\ files = <<>>
    /\ sort_by = "name"
    /\ sort_reverse = FALSE
    /\ pane_height = 0
    /\ show_hidden = FALSE
    /\ clipboard = <<>>
    /\ clipboard_type = "None"
    /\ search_mode = FALSE
    /\ search_query = <<>>
    /\ quit = FALSE
    /\ pc = "init"
    /\ key = 0
    /\ message = NoMessage
    /\ answer = <<>>

Init == Created(InitFs, 5 + PaneRows)

InitNav == \E f \in {InitFs, WideFs} : \E h \in 1..MaxPane : Created(f, 5 + h)

nav == <<current_path, selected_index, top_index>>
cfg == <<sort_by, sort_reverse, show_hidden>>
clip == <<clipboard, clipboard_type>>
srch == <<search_mode, search_query>>
disk == <<fs, nMut>>

\* self.files and 0 <= self.selected_index < len(self.files)
HasCurrent == files # <<>> /\ 0 <= selected_index /\ selected_index < Len(files)

\* self.files[self.selected_index]
Current == files[selected_index + 1]

\* draw_ui() at the top of the iteration, and the refresh_files() that ends it
Finish ==
    /\ height' = height
    /\ pane_height' = height - 5
    /\ files' = IF ListRaises(fs', current_path') THEN files
                ELSE RefreshFiles(fs', current_path', show_hidden', sort_by',
                                  sort_reverse', search_mode', search_query')
    /\ pc' = IF ListRaises(fs', current_path') THEN "raised"
             ELSE IF quit' THEN "exited" ELSE "loop"

\* show_message(text + detail), or no call at all
Shows(text, detail) == message' = <<text, detail>>
Silent == message' = NoMessage

Normal == pc = "loop" /\ ~search_mode

\* run(): curses set-up and the first refresh_files()
Start ==
    /\ pc = "init"
    /\ UNCHANGED <<nav, cfg, clip, srch, disk, quit, key>>
    /\ Silent
    /\ answer' = <<>>
    /\ Finish

KeyUp ==
    /\ Normal
    /\ key' = KEY_UP
    /\ IF selected_index > 0
       THEN /\ selected_index' = selected_index - 1
            /\ top_index' = IF selected_index' < top_index
                            THEN selected_index' ELSE top_index
       ELSE UNCHANGED <<selected_index, top_index>>
    /\ UNCHANGED <<current_path, cfg, clip, srch, disk, quit>>
    /\ Silent
    /\ answer' = <<>>
    /\ Finish

\* KeyDown that moves the selection and never the window
KeyDown_NoScroll ==
    /\ Normal
    /\ key' = KEY_DOWN
    /\ IF selected_index < Len(files) - 1
       THEN selected_index' = selected_index + 1
       ELSE UNCHANGED selected_index
    /\ UNCHANGED <<top_index, current_path, cfg, clip, srch, disk, quit>>
    /\ Silent
    /\ answer' = <<>>
    /\ Finish

KeyDown ==
    /\ Normal
    /\ key' = KEY_DOWN
    /\ IF selected_index < Len(files) - 1
       THEN /\ selected_index' = selected_index + 1
            /\ top_index' = IF selected_index' >= top_index + (height - 5)
                            THEN selected_index' - (height - 5) + 1 ELSE top_index
       ELSE UNCHANGED <<selected_index, top_index>>
    /\ UNCHANGED <<current_path, cfg, clip, srch, disk, quit>>
    /\ Silent
    /\ answer' = <<>>
    /\ Finish

\* a Page Up that always scrolls the window by a page
KeyPageUp_ScrollsPage ==
    /\ Normal
    /\ key' = KEY_PPAGE
    /\ IF selected_index > 0
       THEN /\ selected_index' = Max(0, selected_index - (height - 5))
            /\ top_index' = Max(0, top_index - (height - 5))
       ELSE UNCHANGED <<selected_index, top_index>>
    /\ UNCHANGED <<current_path, cfg, clip, srch, disk, quit>>
    /\ Silent
    /\ answer' = <<>>
    /\ Finish

KeyPageUp ==
    /\ Normal
    /\ key' = KEY_PPAGE
    /\ IF selected_index > 0
       THEN /\ selected_index' = Max(0, selected_index - (height - 5))
            /\ top_index' = IF selected_index' < top_index
                            THEN selected_index' ELSE top_index
       ELSE UNCHANGED <<selected_index, top_index>>
    /\ UNCHANGED <<current_path, cfg, clip, srch, disk, quit>>
    /\ Silent
    /\ answer' = <<>>
    /\ Finish

KeyPageDown ==
    /\ Normal
    /\ key' = KEY_NPAGE
    /\ IF files # <<>>
       THEN /\ selected_index' = Min(Len(files) - 1, selected_index + (height - 5))
            /\ top_index' = IF selected_index' >= top_index + (height - 5)
                            THEN selected_index' - (height - 5) + 1 ELSE top_index
       ELSE UNCHANGED <<selected_index, top_index>>
    /\ UNCHANGED <<current_path, cfg, clip, srch, disk, quit>>
    /\ Silent
    /\ answer' = <<>>
    /\ Finish

KeyHome ==
    /\ Normal
    /\ key' = KEY_HOME
    /\ selected_index' = 0
    /\ top_index' = 0
    /\ UNCHANGED <<current_path, cfg, clip, srch, disk, quit>>
    /\ Silent
    /\ answer' = <<>>
    /\ Finish

KeyEnd ==
    /\ Normal
    /\ key' = KEY_END
    /\ IF files # <<>>
       THEN /\ selected_index' = Len(files) - 1
            /\ top_index' = Max(0, Len(files) - (height - 5))
       ELSE UNCHANGED <<selected_index, top_index>>
    /\ UNCHANGED <<current_path, cfg, clip, srch, disk, quit>>
    /\ Silent
    /\ answer' = <<>>
    /\ Finish

\* Enter in Normal mode: navigate_into().  refresh_files() swallows the
\* PermissionError itself, so the handler's except clause never runs.
NavigateInto ==
    /\ Normal
    /\ key' \in UserKeys \cap {KEY_LF, KEY_CR}
    /\ IF HasCurrent /\ IsDir(fs, Current)
       THEN /\ current_path' = Current
            /\ selected_index' = 0
            /\ top_index' = 0
       ELSE UNCHANGED nav
    /\ UNCHANGED <<cfg, clip, srch, disk, quit>>
    /\ Silent
    /\ answer' = <<>>
    /\ Finish

\* a navigate_to_parent() that keeps the selection of the directory it leaves
NavigateToParent_KeepsSelection ==
    /\ Normal
    /\ key' \in UserKeys \cap {KEY_BACKSPACE, KEY_DEL}
    /\ IF current_path # Root
       THEN /\ current_path' = Parent(current_path)
            /\ UNCHANGED <<selected_index, top_index>>
       ELSE UNCHANGED nav
    /\ UNCHANGED <<cfg, clip, srch, disk, quit>>
    /\ Silent
    /\ answer' = <<>>
    /\ Finish

\* Backspace in Normal mode: navigate_to_parent()
NavigateToParent ==
    /\ Normal
    /\ key' \in UserKeys \cap {KEY_BACKSPACE, KEY_DEL}
    /\ IF current_path # Root
       THEN /\ current_path' = Parent(current_path)
            /\ selected_index' = 0
            /\ top_index' = 0
       ELSE UNCHANGED nav
    /\ UNCHANGED <<cfg, clip, srch, disk, quit>>
    /\ Silent
    /\ answer' = <<>>
    /\ Finish

\* a filesystem call's outcome r is applied; a call that changes the disk
\* uses up one unit of the mutation budget
Applied(r) ==
    /\ r.fs # fs => nMut < MaxMut
    /\ fs' = r.fs
    /\ nMut' = IF r.fs # fs THEN nMut + 1 ELSE nMut

\* F5: copy_file()
CopyFile ==
    /\ Normal
    /\ key' = KEY_F5
    /\ IF HasCurrent
       THEN /\ clipboard' = <<Current>>
            /\ clipboard_type' = "copy"
            /\ Shows("copied to clipboard", "")
       ELSE /\ UNCHANGED clip
            /\ Silent
    /\ UNCHANGED <<nav, cfg, srch, disk, quit>>
    /\ answer' = <<>>
    /\ Finish

\* F6: cut_file()
CutFile ==
    /\ Normal
    /\ key' = KEY_F6
    /\ IF HasCurrent
       THEN /\ clipboard' = <<Current>>
            /\ clipboard_type' = "cut"
            /\ Shows("cut to clipboard", "")
       ELSE /\ UNCHANGED clip
            /\ Silent
    /\ UNCHANGED <<nav, cfg, srch, disk, quit>>
    /\ answer' = <<>>
    /\ Finish

\* the filesystem call paste_file() makes for the slot (src, type)
PasteCall(f, src, type, dest, t) ==
    CASE type = "copy" -> IF IsDir(f, src) THEN CopyTree(f, src, dest, t)
                          ELSE Copy2(f, src, dest, t)
      [] type = "cut" -> Move(f, src, dest, t)
      [] OTHER -> Res("", f)

\* paste_file() empties the slot only after shutil.move has returned
PasteClears_OnError(err, type) == type = "cut"

PasteClears_OnCopy(err, type) == err = ""

PasteClears(err, type) == err = "" /\ type = "cut"

\* v: paste_file()
PasteFile ==
    /\ Normal
    /\ key' = LetterV
    /\ IF clipboard # <<>>
       THEN LET src == clipboard[1]
                dest == Child(current_path, PathName(src))
                r == PasteCall(fs, src, clipboard_type, dest, Now(nMut))
            IN  /\ ~(clipboard_type = "copy" /\ CopyRunsAway(fs, src, dest))
                /\ Applied(r)
                /\ IF PasteClears(r.err, clipboard_type)
                   THEN clipboard' = <<>> /\ clipboard_type' = "None"
                   ELSE UNCHANGED clip
                /\ IF r.err # "" THEN Shows("Error pasting", r.err)
                   ELSE IF clipboard_type = "copy" THEN Shows("copied successfully", "")
                   ELSE IF clipboard_type = "cut" THEN Shows("moved successfully", "")
                   ELSE Silent
       ELSE /\ UNCHANGED <<clip, disk>>
            /\ Silent
    /\ UNCHANGED <<nav, cfg, srch, quit>>
    /\ answer' = <<>>
    /\ Finish

\* F7: create_new_directory()
CreateNewDirectory ==
    /\ Normal
    /\ key' = KEY_F7
    /\ \E name \in NameInputs :
          /\ answer' = name
          /\ IF name # <<>>
             THEN LET r == Mkdir(fs, Child(current_path, name), Now(nMut))
                  IN  /\ Applied(r)
                      /\ IF r.err = "" THEN Shows("created successfully", "")
                         ELSE IF r.err = "FileExistsError" THEN Shows("already exists", "")
                         ELSE Shows("Error", r.err)
             ELSE /\ UNCHANGED disk
                  /\ Silent
    /\ UNCHANGED <<nav, cfg, clip, srch, quit>>
    /\ Finish

\* a prompt that takes the empty answer for a yes
Confirmed_UnlessNo(confirm) == Lower(confirm) # <<110>>

\* confirm.lower() == 'y'
Confirmed(confirm) == Lower(confirm) = <<121>>

\* a delete_file() that empties the slot when the deleted entry was the
\* marked one
DeleteFile_ClearsSlot ==
    /\ Normal
    /\ key' = KEY_F8
    /\ IF HasCurrent
       THEN \E confirm \in ConfirmInputs :
               /\ answer' = confirm
               /\ IF Confirmed(confirm)
                  THEN LET r == IF IsDir(fs, Current)
                                THEN Rmtree(fs, Current, Now(nMut))
                                ELSE Unlink(fs, Current, Now(nMut))
                       IN  /\ Applied(r)
                           /\ IF r.err = "" THEN Shows("deleted successfully", "")
                              ELSE Shows("Error deleting", r.err)
                           /\ IF r.err = "" /\ clipboard = <<Current>>
                              THEN clipboard' = <<>> /\ clipboard_type' = "None"
                              ELSE UNCHANGED clip
                  ELSE /\ UNCHANGED <<disk, clip>>
                       /\ Silent
       ELSE /\ UNCHANGED <<disk, clip>>
            /\ Silent
            /\ answer' = <<>>
    /\ UNCHANGED <<nav, cfg, srch, quit>>
    /\ Finish

\* F8: delete_file()
DeleteFile ==
    /\ Normal
    /\ key' = KEY_F8
    /\ IF HasCurrent
       THEN \E confirm \in ConfirmInputs :
               /\ answer' = confirm
               /\ IF Confirmed(confirm)
                  THEN LET r == IF IsDir(fs, Current)
                                THEN Rmtree(fs, Current, Now(nMut))
                                ELSE Unlink(fs, Current, Now(nMut))
                       IN  /\ Applied(r)
                           /\ IF r.err = "" THEN Shows("deleted successfully", "")
                              ELSE Shows("Error deleting", r.err)
                  ELSE /\ UNCHANGED disk
                       /\ Silent
       ELSE /\ UNCHANGED disk
            /\ Silent
            /\ answer' = <<>>
    /\ UNCHANGED <<nav, cfg, clip, srch, quit>>
    /\ Finish

\* F2: rename_file()
RenameFile ==
    /\ Normal
    /\ key' = KEY_F2
    /\ IF HasCurrent
       THEN \E new_name \in NameInputs :
               /\ answer' = new_name
               /\ IF new_name # <<>>
                  THEN LET r == Rename(fs, Current, Child(current_path, new_name),
                                       Now(nMut))
                       IN  /\ Applied(r)
                           /\ IF r.err = "" THEN Shows("Renamed successfully", "")
                              ELSE Shows("Error renaming", r.err)
                  ELSE /\ UNCHANGED disk
                       /\ Silent
       ELSE /\ UNCHANGED disk
            /\ Silent
            /\ answer' = <<>>
    /\ UNCHANGED <<nav, cfg, clip, srch, quit>>
    /\ Finish

\* a change_sort() whose modulus is one too small: "type" is never reached
ChangeSort_ShortCycle ==
    /\ Normal
    /\ key' = KEY_F9
    /\ LET current_idx == IF \E i \in 1..Len(sort_options) : sort_options[i] = sort_by
                          THEN IndexOf(sort_options, sort_by) - 1 ELSE 0
           next_idx == (current_idx + 1) % (Len(sort_options) - 1)
       IN  sort_by' = sort_options[next_idx + 1]
    /\ UNCHANGED <<nav, sort_reverse, show_hidden, clip, srch, disk, quit>>
    /\ Shows("Sorted by", sort_by')
    /\ answer' = <<>>
    /\ Finish

\* F9: change_sort()
ChangeSort ==
    /\ Normal
    /\ key' = KEY_F9
    /\ LET current_idx == IF \E i \in 1..Len(sort_options) : sort_options[i] = sort_by
                          THEN IndexOf(sort_options, sort_by) - 1 ELSE 0
           next_idx == (current_idx + 1) % Len(sort_options)
       IN  sort_by' = sort_options[next_idx + 1]
    /\ UNCHANGED <<nav, sort_reverse, show_hidden, clip, srch, disk, quit>>
    /\ Shows("Sorted by", sort_by')
    /\ answer' = <<>>
    /\ Finish

\* toggle_hidden(), the handler of the branch
\* `key == ord('h') and curses.KEY_CTRL`; run() never gets past that test
\* (KeyCtrlTest), so this step exists only for a caller of the method
ToggleHidden ==
    /\ Normal
    /\ key' = LetterH
    /\ show_hidden' = ~show_hidden
    /\ UNCHANGED <<nav, sort_by, sort_reverse, clip, srch, disk, quit>>
    /\ Shows("Hidden files", IF show_hidden' THEN "ON" ELSE "OFF")
    /\ answer' = <<>>
    /\ Finish

\* toggle_sort_reverse(), the handler of the branch
\* `key == ord('r') and curses.KEY_CTRL`; as for ToggleHidden
ToggleSortReverse ==
    /\ Normal
    /\ key' = LetterR
    /\ sort_reverse' = ~sort_reverse
    /\ UNCHANGED <<nav, sort_by, show_hidden, clip, srch, disk, quit>>
    /\ Shows("Sort reversed", IF sort_reverse' THEN "ON" ELSE "OFF")
    /\ answer' = <<>>
    /\ Finish

\* "/": enter search mode with an empty query
EnterSearch ==
    /\ Normal
    /\ key' = Slash
    /\ search_mode' = TRUE
    /\ search_query' = <<>>
    /\ UNCHANGED <<nav, cfg, clip, disk, quit>>
    /\ Silent
    /\ answer' = <<>>
    /\ Finish

\* F10 or q
Quit ==
    /\ Normal
    /\ key' \in UserKeys \cap {KEY_F10, LetterQ}
    /\ quit' = TRUE
    /\ UNCHANGED <<nav, cfg, clip, srch, disk>>
    /\ Silent
    /\ answer' = <<>>
    /\ Finish

\* F1, F3, F4 (help, pager, editor leave the model's state alone) and keys
\* without a binding
KeyIgnored ==
    /\ Normal
    /\ key' \in (UserKeys \ BoundKeys) \cup (UserKeys \cap {KEY_F1, KEY_F3, KEY_F4})
    /\ UNCHANGED <<nav, cfg, clip, srch, disk, quit>>
    /\ Silent
    /\ answer' = <<>>
    /\ Finish

\* h or r: the test `key == ord('h') and curses.KEY_CTRL` reads an attribute
\* the curses module does not have; the AttributeError leaves run()
KeyCtrlTest ==
    /\ Normal
    /\ key' \in UserKeys \cap {LetterH, LetterR}
    /\ pc' = "raised"
    /\ pane_height' = height - 5
    /\ UNCHANGED <<nav, cfg, clip, srch, disk, quit, files, height>>
    /\ Silent
    /\ answer' = <<>>

-----------------------------------------------------------------------------
(* Search-Entry mode: every branch ends in `continue` *)

Searching == pc = "loop" /\ search_mode

\* an Escape that leaves the mode and keeps the query
SearchEscape_KeepsQuery ==
    /\ Searching
    /\ key' = KEY_ESC
    /\ search_mode' = FALSE
    /\ UNCHANGED <<search_query, nav, cfg, clip, disk, quit>>
    /\ Silent
    /\ answer' = <<>>
    /\ Finish

\* Escape
SearchEscape ==
    /\ Searching
    /\ key' = KEY_ESC
    /\ search_mode' = FALSE
    /\ search_query' = <<>>
    /\ UNCHANGED <<nav, cfg, clip, disk, quit>>
    /\ Silent
    /\ answer' = <<>>
    /\ Finish

\* Enter
SearchEnter ==
    /\ Searching
    /\ key' \in UserKeys \cap {KEY_LF, KEY_CR}
    /\ search_mode' = FALSE
    /\ UNCHANGED <<search_query, nav, cfg, clip, disk, quit>>
    /\ Silent
    /\ answer' = <<>>
    /\ Finish

\* a Backspace that empties the query
SearchBackspace_Clears ==
    /\ Searching
    /\ key' \in UserKeys \cap {KEY_BACKSPACE, KEY_DEL}
    /\ search_query' = <<>>
    /\ UNCHANGED <<search_mode, nav, cfg, clip, disk, quit>>
    /\ Silent
    /\ answer' = <<>>
    /\ Finish

\* Backspace
SearchBackspace ==
    /\ Searching
    /\ key' \in UserKeys \cap {KEY_BACKSPACE, KEY_DEL}
    /\ search_query' = SubSeq(search_query, 1, Len(search_query) - 1)
    /\ UNCHANGED <<search_mode, nav, cfg, clip, disk, quit>>
    /\ Silent
    /\ answer' = <<>>
    /\ Finish

\* a printable key, 32 <= key <= 126
SearchType ==
    /\ Searching
    /\ Len(search_query) < MaxQuery
    /\ key' \in {k \in UserKeys : Printable(k)}
    /\ search_query' = Append(search_query, key')
    /\ UNCHANGED <<search_mode, nav, cfg, clip, disk, quit>>
    /\ Silent
    /\ answer' = <<>>
    /\ Finish

\* a search branch without its `continue`: a key that matches none of the
\* search tests goes on to the Normal-mode chain, where F10 sets quit
SearchOther_FallsThrough ==
    /\ Searching
    /\ key' \in {k \in UserKeys :
                  /\ k \notin {KEY_ESC, KEY_LF, KEY_CR, KEY_BACKSPACE, KEY_DEL}
                  /\ ~Printable(k)}
    /\ quit' = (quit \/ key' = KEY_F10)
    /\ UNCHANGED <<nav, cfg, clip, srch, disk>>
    /\ Silent
    /\ answer' = <<>>
    /\ Finish

\* any other key: no branch matches, `continue`
SearchOther ==
    /\ Searching
    /\ key' \in {k \in UserKeys :
                  /\ k \notin {KEY_ESC, KEY_LF, KEY_CR, KEY_BACKSPACE, KEY_DEL}
                  /\ ~Printable(k)}
    /\ pane_height' = height - 5
    /\ UNCHANGED <<nav, cfg, clip, srch, disk, quit, files, height, pc>>
    /\ Silent
    /\ answer' = <<>>

-----------------------------------------------------------------------------
(* Specifications *)

NavKeys ==
    \/ KeyUp \/ KeyDown \/ KeyPageUp \/ KeyPageDown \/ KeyHome \/ KeyEnd
    \/ NavigateInto \/ NavigateToParent

FileKeys ==
    \/ CopyFile \/ CutFile \/ PasteFile
    \/ CreateNewDirectory \/ DeleteFile \/ RenameFile

SearchKeys ==
    \/ EnterSearch
    \/ SearchEscape \/ SearchEnter \/ SearchBackspace \/ SearchType \/ SearchOther

OtherNormalKeys ==
    \/ ChangeSort \/ Quit \/ KeyIgnored \/ KeyCtrlTest

Next == Start \/ NavKeys \/ FileKeys \/ SearchKeys \/ OtherNormalKeys

Spec == Init /\ [][Next]_vars

NextNav == Start \/ NavKeys
SpecNav == InitNav /\ [][NextNav]_vars

NextFiles == Start \/ NavKeys \/ FileKeys
SpecFiles == Init /\ [][NextFiles]_vars

NextClip ==
    \/ Start
    \/ KeyUp \/ KeyDown \/ NavigateInto \/ NavigateToParent
    \/ CopyFile \/ CutFile \/ PasteFile \/ DeleteFile
SpecClip == Init /\ [][NextClip]_vars

NextSearch == Start \/ NavKeys \/ SearchKeys
SpecSearch == Init /\ [][NextSearch]_vars

\* marking and deleting
NextDelete ==
    \/ Start
    \/ KeyDown \/ NavigateInto \/ NavigateToParent
    \/ CutFile \/ DeleteFile
SpecDelete == Init /\ [][NextDelete]_vars

\* marking for copy and pasting
NextCopy ==
    \/ Start
    \/ KeyDown \/ NavigateInto \/ NavigateToParent
    \/ CopyFile \/ PasteFile
SpecCopy == Init /\ [][NextCopy]_vars

\* every command the clipboard slot could depend on, on the small tree
InitSlot == Created(SmallFs, 5 + PaneRows)
NextSlot ==
    \/ Start
    \/ KeyDown \/ NavigateInto \/ NavigateToParent
    \/ CopyFile \/ CutFile \/ PasteFile
    \/ CreateNewDirectory \/ DeleteFile \/ RenameFile
    \/ ChangeSort
    \/ EnterSearch \/ SearchEscape \/ SearchEnter
SpecSlot == InitSlot /\ [][NextSlot]_vars

\* search mode in a directory whose names differ in case
InitFilter == Created(CaseFs, 5 + PaneRows)
NextFilter ==
    \/ Start
    \/ NavigateToParent
    \/ SearchKeys
SpecFilter == InitFilter /\ [][NextFilter]_vars

\* the listing configuration, changed through change_sort(), toggle_hidden()
\* and toggle_sort_reverse() as a caller of these methods changes it (of the
\* three, the dispatch chain of run() reaches only change_sort, see KeyCtrlTest)
InitSort == \E f \in {InitFs, WideFs} : Created(f, 5 + PaneRows)
NextSort ==
    \/ Start
    \/ KeyDown \/ NavigateInto \/ NavigateToParent
    \/ ChangeSort \/ ToggleHidden \/ ToggleSortReverse
    \/ KeyIgnored
SpecSort == InitSort /\ [][NextSort]_vars

\* the event loop with the keys that end it, the keys without effect and the
\* two prompts that name a new entry
NextLoop ==
    \/ Start
    \/ KeyUp \/ KeyDown \/ NavigateInto \/ NavigateToParent
    \/ CreateNewDirectory \/ RenameFile
    \/ KeyIgnored \/ KeyCtrlTest \/ Quit
SpecLoop == Init /\ [][NextLoop]_vars

-----------------------------------------------------------------------------
(* Claims *)

\* the selected row lies in the window [top_index, top_index + pane_height - 1]
InWindow ==
    /\ 0 <= top_index
    /\ top_index <= selected_index
    /\ selected_index <= top_index + pane_height - 1

\* C1: under navigation commands alone and a pane of at least one row, every
\* state has 0 <= top_index <= selected_index <= top_index + pane_height - 1,
\* and selected_index < len(files) whenever files is non-empty.
C1_NavigationKeepsWindow ==
    pane_height >= 1 =>
        /\ InWindow
        /\ files # <<>> => selected_index < Len(files)

\* a Down key has scrolled a window of two or more rows
C1_Witness ==
    /\ key = KEY_DOWN
    /\ pane_height >= 2
    /\ top_index > 0
    /\ selected_index = top_index + pane_height - 1
    /\ Len(files) > pane_height


\* the destination paste_file() computes for the slot
PasteDest == Child(current_path, PathName(clipboard[1]))

\* the step handles the paste key with a marked source
PasteStep == Normal /\ key' = LetterV /\ clipboard # <<>>

\* C2 (as claimed): a step that stays in the directory and changes len(files)
\* leaves selected_index = max(0, min(selected_index, len(files) - 1)) and the
\* selected row inside the window.
C2_ReclampAfterLengthChange ==
    [][(/\ pc = "loop" /\ pc' = "loop"
        /\ current_path' = current_path
        /\ Len(files') # Len(files))
       => (/\ selected_index' = Max(0, Min(selected_index, Len(files') - 1))
           /\ InWindow')]_vars

\* C3 (as claimed): a paste that fails leaves the slot as it was and, for a
\* cut, the source present at its path.
C3_FailedPasteSourcePresent ==
    [][(PasteStep /\ message'[1] = "Error pasting")
       => (/\ clipboard' = clipboard
           /\ clipboard_type' = clipboard_type
           /\ clipboard_type = "cut" => Exists(fs', clipboard[1]))]_vars

\* C3 (amended): a paste that fails leaves the slot as it was and, for a cut,
\* does not remove the source: if it was present before, it is present after.
C3_FailedPasteKeepsSlot ==
    [][(PasteStep /\ message'[1] = "Error pasting")
       => (/\ clipboard' = clipboard
           /\ clipboard_type' = clipboard_type
           /\ (clipboard_type = "cut" /\ Exists(fs, clipboard[1]))
                 => Exists(fs', clipboard[1]))]_vars

\* a cut-paste has just failed with the source in place and the slot kept
C3_Witness ==
    /\ key = LetterV
    /\ message[1] = "Error pasting"
    /\ clipboard # <<>>
    /\ clipboard_type = "cut"
    /\ Exists(fs, clipboard[1])

\* C4 (as claimed): a cut-paste that succeeds empties the slot, removes the
\* source from its path and leaves an entry of its name in the current directory.
C4_CutPasteMoves ==
    [][(PasteStep /\ clipboard_type = "cut" /\ message'[1] = "moved successfully")
       => (/\ clipboard' = <<>>
           /\ clipboard_type' = "None"
           /\ ~Exists(fs', clipboard[1])
           /\ Exists(fs', PasteDest))]_vars

\* C5: a copy-paste that succeeds leaves the slot as it was, the source in
\* place, an entry of the source's name in the current directory, and every
\* path that existed before (an earlier copy included) still existing.
C5_CopyPasteKeepsSlot ==
    [][(PasteStep /\ clipboard_type = "copy" /\ message'[1] = "copied successfully")
       => (/\ clipboard' = clipboard
           /\ clipboard_type' = "copy"
           /\ Exists(fs', clipboard[1])
           /\ Exists(fs', PasteDest)
           /\ \A q \in DOMAIN fs : Exists(fs', q))]_vars

\* /h/r, marked for copy, has been pasted into /h/d and into /h/e
C5_Witness ==
    /\ key = LetterV
    /\ message[1] = "copied successfully"
    /\ clipboard = << <<NameH, NameR>> >>
    /\ clipboard_type = "copy"
    /\ Exists(fs, <<NameH, NameR>>)
    /\ Exists(fs, <<NameH, NameD, NameR>>)
    /\ Exists(fs, <<NameH, NameE, NameR>>)

\* C6 (as claimed): a paste whose destination path exists is reported as a
\* failure and changes neither the disk nor the slot.
C6_PasteOntoExistingAborts ==
    [][(PasteStep /\ Exists(fs, PasteDest))
       => (/\ message'[1] = "Error pasting"
           /\ fs' = fs
           /\ clipboard' = clipboard
           /\ clipboard_type' = clipboard_type)]_vars

\* every listed name contains the query, case-insensitively
Filtered ==
    \A i \in 1..Len(files) :
        Contains(Lower(PathName(files[i])), Lower(search_query))

\* C7 (as claimed): Enter in search mode returns to Normal mode with the query
\* kept, and from then on files stays filtered by it for as long as the query
\* is kept and search mode is not entered again.
C7_FilterPersistsAfterEnter ==
    [][/\ (Searching /\ key' \in {KEY_LF, KEY_CR})
             => (~search_mode' /\ search_query' = search_query /\ Filtered')
       /\ (/\ pc = "loop" /\ ~search_mode /\ search_query # <<>>
           /\ ~search_mode' /\ search_query' = search_query)
             => Filtered']_vars

\* C8: "/" starts an empty query; a printable key appends its character;
\* Backspace drops the last character (nothing on an empty query); Escape
\* empties the query, leaves search mode and lists the directory unfiltered.
C8_SearchTextEntry ==
    [][/\ (Normal /\ key' = Slash)
             => (search_mode' /\ search_query' = <<>>)
       /\ (Searching /\ Printable(key'))
             => (search_mode' /\ search_query' = search_query \o <<key'>>)
       /\ (Searching /\ key' \in {KEY_BACKSPACE, KEY_DEL})
             => /\ search_mode'
                /\ search_query # <<>> =>
                      /\ Len(search_query') = Len(search_query) - 1
                      /\ search_query' \o <<search_query[Len(search_query)]>>
                            = search_query
                /\ search_query = <<>> => search_query' = <<>>
       /\ (Searching /\ key' = KEY_ESC)
             => /\ ~search_mode'
                /\ search_query' = <<>>
                /\ files' = Listing(fs, current_path, show_hidden, sort_by,
                                    sort_reverse)]_vars

\* "r", "e", "a" were typed and Backspace has left "re"
C8_Witness ==
    /\ search_mode
    /\ key = KEY_BACKSPACE
    /\ search_query = <<LetterR, LetterE>>

\* C10 (as claimed): with a non-empty listing, F5 or F6 in Normal mode sets
\* the slot to the current entry and the chosen mode.
C10_MarkAlwaysSets ==
    [][(Normal /\ files # <<>> /\ key' \in {KEY_F5, KEY_F6})
       => (/\ HasCurrent
           /\ clipboard' = <<Current>>
           /\ clipboard_type' = IF key' = KEY_F5 THEN "copy" ELSE "cut")]_vars

\* C11 (as claimed): an iteration of the loop leaves it only by the quit keys
\* F10 and q in Normal mode, and then by the loop's own test, never by an
\* exception.
C11_OnlyQuitEndsLoop ==
    [][(pc = "loop" /\ pc' # "loop")
       => (/\ ~search_mode
           /\ key' \in {KEY_F10, LetterQ}
           /\ pc' = "exited")]_vars

\* C12: F8 on a selected entry removes it only when the answer to the prompt
\* is "y" or "Y"; on any other answer, the empty one included, the disk, the
\* listing, the selection and the clipboard stay as they were.
C12_DeleteNeedsYes ==
    [][(Normal /\ key' = KEY_F8 /\ HasCurrent)
       => (/\ (Exists(fs, Current) /\ ~Exists(fs', Current))
                 => answer' \in {<<121>>, <<89>>}
           /\ answer' \notin {<<121>>, <<89>>}
                 => UNCHANGED <<fs, files, current_path, selected_index,
                                top_index, clipboard, clipboard_type>>)]_vars

\* the prompt of F8 was answered with the empty input, with a marked source
C12_Witness ==
    /\ key = KEY_F8
    /\ answer = <<>>
    /\ HasCurrent
    /\ clipboard # <<>>
    /\ fs = InitFs

\* C13 (as claimed): the paste key with an empty slot changes neither the
\* disk, the path, the selection nor the slot, and shows a message.
C13_EmptyPasteReports ==
    [][(Normal /\ key' = LetterV /\ clipboard = <<>>)
       => (/\ UNCHANGED <<fs, current_path, selected_index, top_index,
                          clipboard, clipboard_type>>
           /\ message' # NoMessage)]_vars

\* the elements of a sequence, and the place of one of them
Range(seq) == {seq[i] : i \in 1..Len(seq)}
PlaceIn(seq, x) == CHOOSE i \in 1..Len(seq) : seq[i] = x

\* the name contains the query, letter case apart
NameHasQuery(p) ==
    \E i \in 1..(Len(PathName(p)) + 1) : \E j \in (i - 1)..Len(PathName(p)) :
        Lower(SubSeq(PathName(p), i, j)) = Lower(search_query)

\* C14: while a non-empty query is applied (search mode), files is exactly the
\* entries of the sorted unfiltered listing whose names contain the query,
\* letter case apart, in the order they have there; with an empty query files
\* is the unfiltered listing.
C14_FilterIsSubsequence ==
    pc = "loop" =>
        LET all == Listing(fs, current_path, show_hidden, sort_by, sort_reverse)
        IN  /\ (search_mode /\ search_query # <<>>) =>
                  /\ \A p \in Range(files) : p \in Range(all) /\ NameHasQuery(p)
                  /\ \A p \in Range(all) : NameHasQuery(p) => p \in Range(files)
                  /\ \A i \in 1..Len(files) : \A j \in (i + 1)..Len(files) :
                         PlaceIn(all, files[i]) < PlaceIn(all, files[j])
            /\ search_query = <<>> => files = all

\* the query "a" lists a.e and Ae, and neither d, e nor r
C14_Witness ==
    /\ search_mode
    /\ search_query = <<LetterA>>
    /\ files = << <<NameH, NameADotE>>, <<NameH, NameAe>> >>

\* C15: after every refresh, no file stands before a directory, and inside the
\* directories and inside the files the sort keys never decrease from one
\* entry to the next, or never increase when sort_reverse is set.
C15_DirsFirstGroupsSorted ==
    pc = "loop" =>
        \A i \in 1..Len(files) : \A j \in (i + 1)..Len(files) :
            /\ IsDir(fs, files[j]) => IsDir(fs, files[i])
            /\ (IsDir(fs, files[i]) <=> IsDir(fs, files[j])) =>
                  IF sort_reverse
                  THEN ~KeyLess(fs, sort_by, files[i], files[j])
                  ELSE ~KeyLess(fs, sort_by, files[j], files[i])

\* two directories and four files, by size, largest first
C15_Witness ==
    /\ sort_reverse
    /\ sort_by = "size"
    /\ Len(files) = 6
    /\ IsDir(fs, files[2])
    /\ files[3] = <<NameH, NameB>>
    /\ files[6] = <<NameH, NameCT>>

\* the entries of a listing whose names do not begin with "."
Undotted(seq) ==
    LET NoDot(p) == PathName(p)[1] # 46
    IN  SelectSeq(seq, NoDot)

\* C16: after every refresh with show_hidden off, no listed name begins with
\* "."; a toggle of show_hidden leaves the entries without a leading "." as
\* they were and in their order, and a toggle to on lists every child of a
\* listable current directory (toggling twice therefore restores the listing).
C16_HiddenFilter ==
    [][pc' = "loop" =>
        /\ ~show_hidden' => Undotted(files') = files'
        /\ (Normal /\ show_hidden' # show_hidden) =>
              /\ Undotted(files') = Undotted(files)
              /\ (show_hidden' /\ fs[current_path].readable)
                    => Range(files') = Children(fs, current_path)]_vars

\* hidden files have been switched on in the home directory, which lists .g
C16_Witness ==
    /\ key = LetterH
    /\ show_hidden
    /\ current_path = Home
    /\ <<NameH, NameG>> \in Range(files)
    /\ Len(files) = Cardinality(Children(fs, Home))

\* C17 (as claimed): a step that leaves search mode leaves the query empty.
C17_LeavingSearchClearsQuery ==
    [][(Searching /\ ~search_mode') => search_query' = <<>>]_vars

\* C17 (amended): search mode is left by Escape, which leaves the query empty,
\* or by Enter, which leaves the query as it was typed.
C17_EscapeClearsEnterKeeps ==
    [][(Searching /\ ~search_mode')
       => \/ key' = KEY_ESC /\ search_query' = <<>>
          \/ key' \in {KEY_LF, KEY_CR} /\ search_query' = search_query]_vars

\* Escape has just ended a search
C17_Witness ==
    /\ pc = "loop"
    /\ key = KEY_ESC
    /\ ~search_mode
    /\ search_query = <<>>

\* C18: Backspace in Normal mode at the root leaves current_path,
\* selected_index and top_index as they are; elsewhere current_path loses its
\* last component and selected_index and top_index become 0.
C18_GoToParent ==
    [][(Normal /\ key' \in {KEY_BACKSPACE, KEY_DEL})
       => IF current_path = <<>>
          THEN UNCHANGED <<current_path, selected_index, top_index>>
          ELSE /\ current_path' \o <<current_path[Len(current_path)]>>
                     = current_path
               /\ selected_index' = 0
               /\ top_index' = 0]_vars

\* Backspace at the root, pressed with the third entry selected, changed nothing
C18_Witness ==
    /\ key = KEY_BACKSPACE
    /\ current_path = <<>>
    /\ selected_index = 2

\* the sort key that follows k in the cycle name, size, modified, type
KeyAfter(k) ==
    CASE k = "name" -> "size"
      [] k = "size" -> "modified"
      [] k = "modified" -> "type"
      [] k = "type" -> "name"

C21_SearchKeysNotDispatched ==
    [][Searching =>
        /\ UNCHANGED <<current_path, selected_index, top_index, sort_by,
                       sort_reverse, show_hidden, clipboard, clipboard_type,
                       fs, quit>>
        /\ pc' = "loop"
        /\ Printable(key') =>
              search_mode' /\ search_query' = search_query \o <<key'>>
        /\ (/\ ~Printable(key')
            /\ key' \notin {KEY_BACKSPACE, KEY_DEL, KEY_ESC, KEY_LF, KEY_CR})
              => UNCHANGED <<search_mode, search_query>>]_vars

\* "q" was typed in search mode: it is the query's last character and the
\* loop goes on
C21_Witness ==
    /\ pc = "loop"
    /\ search_mode
    /\ key = LetterQ
    /\ search_query # <<>>
    /\ search_query[Len(search_query)] = LetterQ
    /\ ~quit

\* the slot is empty, without source and mode, or holds one source with the
\* mode copy or cut
SlotWellFormed ==
    \/ clipboard = <<>> /\ clipboard_type = "None"
    \/ Len(clipboard) = 1 /\ clipboard_type \in {"copy", "cut"}

\* C22: the slot is well formed before and after every step, and a step that
\* changes its source or its mode is F5 or F6 in Normal mode on a selected
\* entry, which becomes the source, or a paste of a cut source that reports
\* success, which empties it.
C22_SlotChangesOnlyByMarkOrMove ==
    [][/\ SlotWellFormed
       /\ SlotWellFormed'
       /\ (clipboard' # clipboard \/ clipboard_type' # clipboard_type) =>
             /\ Normal
             /\ \/ /\ key' \in {KEY_F5, KEY_F6}
                   /\ HasCurrent
                   /\ clipboard' = <<Current>>
                   /\ clipboard_type' = IF key' = KEY_F5 THEN "copy" ELSE "cut"
                \/ /\ key' = LetterV
                   /\ clipboard_type = "cut"
                   /\ message'[1] = "moved successfully"
                   /\ clipboard' = <<>>
                   /\ clipboard_type' = "None"]_vars

\* the marked source itself has just been deleted and the slot still names it
C22_Witness ==
    /\ key = KEY_F8
    /\ message[1] = "deleted successfully"
    /\ clipboard # <<>>
    /\ ~Exists(fs, clipboard[1])

\* C9: Enter on a selected directory that cannot be listed leaves
\* current_path, selected_index and top_index as they were and shows a message.
C9_DeniedEnterLeavesState ==
    [][(/\ Normal
        /\ key' \in {KEY_LF, KEY_CR}
        /\ HasCurrent
        /\ IsDir(fs, Current)
        /\ ~fs[Current].readable)
       => (/\ current_path' = current_path
           /\ selected_index' = selected_index
           /\ top_index' = top_index
           /\ message' # NoMessage)]_vars

====
